---------------------------- MODULE Spec2Model ----------------------------
(***************************************************************************)
(* A model of the GSHHG shoreline engine (src/src/core): the constructor   *)
(* that loads the per-level shapefiles into the polygon store and the      *)
(* boundary-point index, the single-point queries (mask, nearest,          *)
(* distance_to_nearest, points, polygons) and the batched queries of the   *)
(* Python binding, which fan a range of indices out over worker threads.   *)
(*                                                                         *)
(* Coordinates are integers in degrees.  Ring vertices and bounding boxes  *)
(* lie on the 90-degree grid, where the WGS84 conversion to ECEF is exact  *)
(* up to the rounding of the semi-axes to kilometres.                      *)
(***************************************************************************)
EXTENDS Integers, Sequences, FiniteSets, TLC

\* ------------------------------------------------------------------------
\* Generic helpers
\* ------------------------------------------------------------------------

NONE == "none"

\* std::optional and nullable pointers: Nothing, or Some(value).
Nothing == <<>>
Some(x) == <<x>>
Has(o) == Len(o) = 1
Value(o) == o[1]

Min2(a, b) == IF a < b THEN a ELSE b
Max2(a, b) == IF a > b THEN a ELSE b

Range(s) == {s[i] : i \in 1..Len(s)}

\* ------------------------------------------------------------------------
\* math.hpp
\* ------------------------------------------------------------------------

\* std::remainder(x, y) for y > 0: x - n*y with n the integer nearest to x/y,
\* ties to the even n; the result lies in [-y/2, y/2].
StdRemainder(x, y) ==
    LET q == x \div y
        r == x - q * y
    IN  IF 2 * r < y THEN r
        ELSE IF 2 * r > y THEN r - y
        ELSE IF q % 2 = 0 THEN r ELSE r - y

\* remainder(x, y), floating-point variant: a result with the sign of y.
remainder(x, y) ==
    LET result == StdRemainder(x, y)
    IN  IF result < 0 THEN result + y ELSE result

normalize_angle(x, min, circle) == remainder(x - min, circle) + min

\* The arguments mask() passes to normalize_angle.
MinLon == -180
Circle == 360

\* ------------------------------------------------------------------------
\* geometry.hpp / boost::geometry primitives on integer points <<x, y>>
\* ------------------------------------------------------------------------

Pt(x, y) == <<x, y>>
Box(minx, miny, maxx, maxy) == [min |-> <<minx, miny>>, max |-> <<maxx, maxy>>]

\* boost::geometry::envelope of a ring: the exact bounding box of its vertices.
EnvelopeOfFirstEdge(ring) ==
    [min |-> <<Min2(ring[1][1], ring[2][1]), Min2(ring[1][2], ring[2][2])>>,
     max |-> <<Max2(ring[1][1], ring[2][1]), Max2(ring[1][2], ring[2][2])>>]
Envelope(ring) ==
    LET xs == {ring[i][1] : i \in 1..Len(ring)}
        ys == {ring[i][2] : i \in 1..Len(ring)}
    IN  [min |-> << CHOOSE v \in xs : \A w \in xs : v <= w,
                    CHOOSE v \in ys : \A w \in ys : v <= w >>,
         max |-> << CHOOSE v \in xs : \A w \in xs : v >= w,
                    CHOOSE v \in ys : \A w \in ys : v >= w >>]

\* boost::geometry::intersects(point, box): the box is closed.
PointInBox(p, box) ==
    /\ box.min[1] <= p[1] /\ p[1] <= box.max[1]
    /\ box.min[2] <= p[2] /\ p[2] <= box.max[2]

Cross(a, b, p) ==
    (b[1] - a[1]) * (p[2] - a[2]) - (b[2] - a[2]) * (p[1] - a[1])

OnSegment(a, b, p) ==
    /\ Cross(a, b, p) = 0
    /\ Min2(a[1], b[1]) <= p[1] /\ p[1] <= Max2(a[1], b[1])
    /\ Min2(a[2], b[2]) <= p[2] /\ p[2] <= Max2(a[2], b[2])

\* Does the ray from p towards +x cross the segment a-b?
RayCrosses(a, b, p) ==
    \/ a[2] <= p[2] /\ p[2] < b[2] /\ Cross(a, b, p) > 0
    \/ b[2] <= p[2] /\ p[2] < a[2] /\ Cross(a, b, p) < 0

\* boost::geometry::intersects(point, polygon) for a polygon that has only an
\* outer ring: the point is inside the ring or on its boundary.  The ring's
\* segments join consecutive vertices (boost's closed rings repeat the first
\* vertex at the end).
PointInRing(p, ring) ==
    LET segs == 1..(Len(ring) - 1)
    IN  \/ \E i \in segs : OnSegment(ring[i], ring[i + 1], p)
        \/ Cardinality({i \in segs : RayCrosses(ring[i], ring[i + 1], p)}) % 2 = 1

\* Twice the signed area of a ring (shoelace formula).
RECURSIVE Area2(_, _)
Area2(ring, i) ==
    IF i >= Len(ring) THEN 0
    ELSE ring[i][1] * ring[i + 1][2] - ring[i + 1][1] * ring[i][2]
         + Area2(ring, i + 1)

\* One pass of the clipping of a closed ring against one side of a box.
SideInside(p, side, box) ==
    CASE side = "left"   -> p[1] >= box.min[1]
      [] side = "right"  -> p[1] <= box.max[1]
      [] side = "bottom" -> p[2] >= box.min[2]
      [] side = "top"    -> p[2] <= box.max[2]

Div(n, d) == IF d < 0 THEN (-n) \div (-d) ELSE n \div d

SideCross(a, b, side, box) ==
    LET c == CASE side = "left"   -> box.min[1]
               [] side = "right"  -> box.max[1]
               [] side = "bottom" -> box.min[2]
               [] side = "top"    -> box.max[2]
    IN  IF side \in {"left", "right"}
        THEN <<c, a[2] + Div((b[2] - a[2]) * (c - a[1]), b[1] - a[1])>>
        ELSE <<a[1] + Div((b[1] - a[1]) * (c - a[2]), b[2] - a[2]), c>>

RECURSIVE ClipSide(_, _, _, _)
ClipSide(ring, i, side, box) ==
    IF i >= Len(ring) THEN <<>>
    ELSE LET a == ring[i]
             b == ring[i + 1]
             rest == ClipSide(ring, i + 1, side, box)
         IN  IF SideInside(a, side, box)
             THEN IF SideInside(b, side, box)
                  THEN <<b>> \o rest
                  ELSE <<SideCross(a, b, side, box)>> \o rest
             ELSE IF SideInside(b, side, box)
                  THEN <<SideCross(a, b, side, box), b>> \o rest
                  ELSE rest

\* Drop consecutive duplicates and close the ring again.
RECURSIVE Dedup(_)
Dedup(s) ==
    IF Len(s) <= 1 THEN s
    ELSE IF s[1] = s[2] THEN Dedup(Tail(s))
    ELSE <<s[1]>> \o Dedup(Tail(s))

Close(s) ==
    IF Len(s) = 0 THEN s
    ELSE LET d == Dedup(s)
         IN  IF d[Len(d)] = d[1] THEN d ELSE <<d[Len(d)]>> \o d

ClipBox(ring, box) ==
    LET l == Close(ClipSide(ring, 1, "left", box))
        r == Close(ClipSide(l, 1, "right", box))
        b == Close(ClipSide(r, 1, "bottom", box))
    IN  Close(ClipSide(b, 1, "top", box))

\* The vertices of a ring that lie strictly inside the edge from a to b, in
\* the order the edge meets them.
RECURSIVE Along(_, _)
Along(a, S) ==
    IF S = {} THEN <<>>
    ELSE LET v == CHOOSE u \in S : \A w \in S :
                      (u[1] - a[1]) * (u[1] - a[1]) + (u[2] - a[2]) * (u[2] - a[2])
                      <= (w[1] - a[1]) * (w[1] - a[1]) + (w[2] - a[2]) * (w[2] - a[2])
         IN  <<v>> \o Along(a, S \ {v})

\* The ring with every vertex that touches another edge added to that edge.
RECURSIVE Touching(_, _)
Touching(ring, i) ==
    IF i >= Len(ring) THEN <<ring[Len(ring)]>>
    ELSE LET a == ring[i]
             b == ring[i + 1]
             on == {v \in Range(ring) : v # a /\ v # b /\ OnSegment(a, b, v)}
         IN  <<a>> \o Along(a, on) \o Touching(ring, i + 1)

\* The closed rings a ring that touches itself falls into, cut at the
\* vertices it passes twice; what encloses no area is dropped.
RECURSIVE Pieces(_)
Pieces(ring) ==
    LET n == Len(ring)
        twice == {ij \in (1..n) \X (1..n) :
                     /\ ij[1] < ij[2]
                     /\ ring[ij[1]] = ring[ij[2]]
                     /\ ~(ij[1] = 1 /\ ij[2] = n)}
    IN  IF n < 4 THEN <<>>
        ELSE IF twice = {}
        THEN IF Area2(ring, 1) = 0 THEN <<>> ELSE <<ring>>
        ELSE LET ij == CHOOSE c \in twice :
                           \A d \in twice : c[2] - c[1] <= d[2] - d[1]
             IN  Pieces(SubSeq(ring, 1, ij[1]) \o SubSeq(ring, ij[2] + 1, n))
                 \o Pieces(SubSeq(ring, ij[1], ij[2]))

\* boost::geometry::intersection(polygon, box, out): the areal pieces of the
\* ring inside the box, none when they only touch.
Intersection(ring, box) ==
    LET c == ClipBox(ring, box)
    IN  IF Len(c) < 4 THEN <<>> ELSE Pieces(Touching(c, 1))

\* ------------------------------------------------------------------------
\* geometry.cpp: WGS84 conversions on the 90-degree grid
\* ------------------------------------------------------------------------

\* Equatorial and polar radius, in km (the source holds them in metres), so
\* that squared ECEF distances stay inside TLC's 32-bit integers.
A == 6378
B == 6357

\* cos and sin of a multiple of 90 degrees.
CosDeg(d) ==
    LET r == d % 360
    IN  IF r = 0 THEN 1 ELSE IF r = 180 THEN -1 ELSE 0
SinDeg(d) ==
    LET r == d % 360
    IN  IF r = 90 THEN 1 ELSE IF r = 270 THEN -1 ELSE 0

\* geodetic_2_cartesian(geodetic_2_radian(lon, lat, 0)).  With chi =
\* sqrt(1 - E^2 sin_y^2), a_chi = A / chi is A on the equator and A^2 / B at
\* the poles, and a_chi * (1 - E^2) is B at the poles.
geodetic_2_cartesian(lon, lat) ==
    LET cos_x == CosDeg(lon)
        sin_x == SinDeg(lon)
        cos_y == CosDeg(lat)
        sin_y == SinDeg(lat)
        a_chi == IF sin_y = 0 THEN A ELSE (A * A) \div B
        a_chi_1_e2 == IF sin_y = 0 THEN (B * B) \div A ELSE B
    IN  <<a_chi * cos_y * cos_x, a_chi * cos_y * sin_x, a_chi_1_e2 * sin_y>>

\* geodetic_2_degree(cartesian_2_geodetic(point)) for a point of the grid:
\* the poles come back with longitude 0, atan2(0, -A) is +180 degrees.
cartesian_2_geodetic(point) ==
    LET x == point[1]
        y == point[2]
        z == point[3]
    IN  IF x = 0 /\ y = 0
        THEN <<0, IF z < 0 THEN -90 ELSE 90>>
        ELSE << IF y = 0 THEN (IF x > 0 THEN 0 ELSE 180)
                ELSE (IF y > 0 THEN 90 ELSE -90),
                IF z = 0 THEN 0 ELSE IF z > 0 THEN 90 ELSE -90 >>

\* boost's comparable distance of two cartesian points.
Dist2(p, q) ==
    (p[1] - q[1]) * (p[1] - q[1]) + (p[2] - q[2]) * (p[2] - q[2])
    + (p[3] - q[3]) * (p[3] - q[3])

\* ------------------------------------------------------------------------
\* The shapefile reader (shapelib): what SHPOpen and SHPReadObject hand over
\* ------------------------------------------------------------------------

SHPT_POINT == 1
SHPT_POLYGON == 5

Rect(x1, y1, x2, y2) ==
    <<Pt(x1, y1), Pt(x1, y2), Pt(x2, y2), Pt(x2, y1), Pt(x1, y1)>>

Shape(type, parts, start, verts) ==
    [null |-> FALSE, nSHPType |-> type, nParts |-> parts,
     panPartStart0 |-> start, verts |-> verts]

NullShape == [null |-> TRUE, nSHPType |-> 0, nParts |-> 0,
              panPartStart0 |-> 0, verts |-> <<>>]
Land == Shape(SHPT_POLYGON, 1, 0, Rect(-180, -90, 180, 90))
Lake == Shape(SHPT_POLYGON, 2, 0, Rect(-90, -90, 90, 90))
Island == Shape(SHPT_POLYGON, 1, 0, <<Pt(0, 0), Pt(0, 90), Pt(90, 0), Pt(0, 0)>>)
West == Shape(SHPT_POLYGON, 1, 0, Rect(-180, 0, -90, 90))
PointShape == Shape(SHPT_POINT, 0, 0, <<Pt(90, 0)>>)
EmptyPoly == Shape(SHPT_POLYGON, 0, 0, <<>>)
\* The broken first ring of level 5 at full resolution: without its first two
\* vertices and its last one, and closed by (180, -90) and (0, -90), it is
\* the ring of Rect(0, -90, 180, 0).
Antarctica ==
    Shape(SHPT_POLYGON, 1, 0,
          <<Pt(-180, -90), Pt(-180, 0), Pt(0, -90), Pt(0, 0), Pt(180, 0),
            Pt(180, 90)>>)
\* A ring with a notch down to (90, 0): north of the equator it is two
\* triangles that touch in one point.
Notched ==
    Shape(SHPT_POLYGON, 1, 0,
          <<Pt(0, 90), Pt(90, 0), Pt(180, 90), Pt(180, -90), Pt(0, -90),
            Pt(0, 90)>>)
South == Shape(SHPT_POLYGON, 1, 0, Rect(0, -90, 180, 0))
BadParts2 == Shape(SHPT_POLYGON, 2, 2, Rect(-90, 0, 0, 90))
BadParts1 == Shape(SHPT_POLYGON, 1, 1, Rect(-90, 0, 0, 90))

\* A dataset file: one SHPOpen cannot open, or one holding shapes.
MISSING == [found |-> FALSE, shapes |-> <<>>]
File(shapes) == [found |-> TRUE, shapes |-> shapes]

\* The level files of the dataset directories the model builds from, per
\* resolution code: nested land, lake and island; shapes of one region and
\* shapes that are no polygons; a directory with a shape that a bbox cuts
\* into two pieces; a directory of empty files.  Every ring a
\* file yields is a closed ring; the first shape of level 5 at full
\* resolution is one once patched.
BaseFiles(base, code, lv) ==
    CASE base = "nested" ->
           CASE lv = 1 -> File(<<Land>>)
             [] lv = 2 -> File(<<Lake>>)
             [] lv = 3 -> File(<<Island, West>>)
             [] lv = 4 -> File(<<PointShape, West, EmptyPoly>>)
             [] lv = 5 -> IF code = "f" THEN File(<<Antarctica, Island>>)
                          ELSE File(<<South, Island>>)
             [] OTHER -> File(<<>>)
      [] base = "notched" ->
           CASE lv = 1 -> File(<<Land>>)
             [] lv = 2 -> File(<<Island, Notched, Lake>>)
             [] lv = 3 -> File(<<PointShape, Notched>>)
             [] OTHER -> File(<<>>)
      [] base = "west" ->
           CASE lv = 1 -> File(<<West>>)
             [] lv = 4 -> File(<<West, PointShape>>)
             [] lv = 5 -> IF code = "f" THEN File(<<Antarctica, West>>)
                          ELSE File(<<EmptyPoly, West>>)
             [] OTHER -> File(<<>>)
      [] OTHER -> File(<<>>)

Bases == {"nested", "west", "notched", "empty"}
Defects ==
    { MISSING, File(<<Land, BadParts2, Lake>>), File(<<BadParts1>>),
      File(<<Island, NullShape, West>>) }

\* A directory: a base whose file of level badLevel is replaced by a defect
\* (badLevel 0: by nothing).
Directories ==
    {[base |-> b, badLevel |-> 0, bad |-> MISSING] : b \in Bases}
    \cup [base : {"nested"}, badLevel : 1..6, bad : Defects]

FileAt(dir, code, lv) ==
    IF dir.badLevel = lv THEN dir.bad ELSE BaseFiles(dir.base, code, lv)

\* ------------------------------------------------------------------------
\* gshhg.hpp / gshhg.cpp: construction
\* ------------------------------------------------------------------------

ResolutionNames == {"crude", "low", "intermediate", "high", "full"}

\* parse_resolution_string: the Resolution code, or NONE where it throws
\* std::invalid_argument.
parse_resolution_lenient(resolution) ==
    CASE resolution = "crude" -> "c"
      [] resolution = "low" -> "l"
      [] resolution = "high" -> "h"
      [] resolution = "full" -> "f"
      [] OTHER -> "i"
parse_resolution_string(resolution) ==
    CASE resolution = "crude" -> "c"
      [] resolution = "low" -> "l"
      [] resolution = "intermediate" -> "i"
      [] resolution = "high" -> "h"
      [] resolution = "full" -> "f"
      [] OTHER -> NONE

value_or(opt, default) == IF opt = NONE THEN default ELSE opt

\* dirname / resolution_code / GSHHS_<resolution_code>_L<level>.shp
Path(resolution_code, lv) == <<resolution_code, "GSHHS", resolution_code, lv>>

\* transform_polygon_points: one ECEF point per vertex of the outer ring.
transform_open_ring_points(ring, pts) ==
    pts \o [i \in 1..(Len(ring) - 1) |->
               geodetic_2_cartesian(ring[i][1], ring[i][2])]
transform_polygon_points(ring, pts) ==
    pts \o [i \in 1..Len(ring) |-> geodetic_2_cartesian(ring[i][1], ring[i][2])]

\* The test of load_shp on the shape read.
IsMalformedNullOnly(shape) == shape.null
IsMalformed(shape) ==
    shape.null \/ (shape.nParts > 0 /\ shape.panPartStart0 # 0)

\* The ring load_shp assembles from the vertices of shape ix (0-based).
ShapeRing(shape, ix, patch) ==
    LET n == Len(shape.verts)
        kept == SelectSeq([jx \in 1..n |-> <<jx - 1, shape.verts[jx]>>],
                          LAMBDA e : ~(patch /\ ix = 0
                                       /\ (e[1] < 2 \/ e[1] = n - 1)))
        ring == [k \in 1..Len(kept) |-> kept[k][2]]
    IN  IF patch /\ ix = 0 THEN ring \o <<Pt(180, -90), Pt(0, -90)>> ELSE ring

PolygonIndex(ring, lv) ==
    [polygon |-> ring, envelope |-> Envelope(ring), level |-> lv]

\* The records and points the sub-polygons of one clipped shape add.
RECURSIVE StoreItemsFront(_, _, _, _)
StoreItemsFront(items, lv, polys, pts) ==
    IF items = <<>> THEN [polygons |-> polys, points |-> pts]
    ELSE StoreItemsFront(Tail(items), lv,
                         <<PolygonIndex(Head(items), lv)>> \o polys,
                         transform_polygon_points(Head(items), pts))
RECURSIVE StoreItems(_, _, _, _)
StoreItems(items, lv, polys, pts) ==
    IF items = <<>> THEN [polygons |-> polys, points |-> pts]
    ELSE StoreItems(Tail(items), lv,
                    Append(polys, PolygonIndex(Head(items), lv)),
                    transform_polygon_points(Head(items), pts))

\* load_shp from shape ix (0-based) on: the store and the points after the
\* file, the number of SHPReadObject calls made, and whether it threw.
RECURSIVE LoadShapes(_, _, _, _, _, _, _)
LoadShapes(content, ix, lv, patch, box, polys, pts) ==
    IF ix >= Len(content)
    THEN [ok |-> TRUE, polygons |-> polys, points |-> pts, nread |-> ix]
    ELSE LET shape == content[ix + 1]
         IN  IF IsMalformed(shape)
             THEN [ok |-> FALSE, polygons |-> polys, points |-> pts,
                   nread |-> ix + 1]
             ELSE IF shape.nSHPType = SHPT_POLYGON /\ Len(shape.verts) # 0
             THEN LET ring == ShapeRing(shape, ix, patch)
                      items == IF Has(box) THEN Intersection(ring, Value(box))
                               ELSE <<ring>>
                      st == StoreItems(items, lv, polys, pts)
                  IN  LoadShapes(content, ix + 1, lv, patch, box,
                                 st.polygons, st.points)
             ELSE LoadShapes(content, ix + 1, lv, patch, box, polys, pts)

\* Does the level loop of the constructor skip this level?
SkipsLevelNoCrudeRule(lvls, resolution_code, lv) ==
    Has(lvls) /\ lv \notin Range(Value(lvls))
SkipsLevel(lvls, resolution_code, lv) ==
    \/ Has(lvls) /\ lv \notin Range(Value(lvls))
    \/ resolution_code = "c" /\ lv = 4

\* Level 5 at full resolution must be patched.
NeedsPatchAtLevel5(resolution_code, lv) == lv = 5
NeedsPatch(resolution_code, lv) == resolution_code = "f" /\ lv = 5

FirstLevel == 1
LastLevel == 6
NextLevel(lv) == lv + 1

\* ------------------------------------------------------------------------
\* State
\* ------------------------------------------------------------------------

VARIABLES
    dirname,          \* constructor argument: the dataset directory
    resolution,       \* constructor argument: a name, or NONE
    levels,           \* constructor argument: an optional sequence of integers
    bbox_,            \* constructor argument and member: an optional box
    pc,               \* "ctor", "loop", "ready" (constructed) or "failed"
    resolution_code,  \* the parsed resolution
    level,            \* the level loop's variable
    polygons_,        \* the polygon store
    points,           \* the constructor's buffer of ECEF points
    rtree_,           \* the index: Nothing (nullptr) or the indexed points
    opened,           \* the paths handed to SHPOpen, in order
    reads,            \* the <<level, ix>> of every SHPReadObject call, in order
    error,            \* the exception the constructor threw, or NONE
    last,             \* the last single-point query and what it returned
    batch,            \* the batched query in progress: its arguments, its
                      \* output buffer and its captured exception
    workers           \* the worker threads of the batched query

argVars == <<dirname, resolution, levels, bbox_>>
ctorVars == <<argVars, pc, resolution_code, level, polygons_, points, rtree_,
              opened, reads, error>>
vars == <<ctorVars, last, batch, workers>>

NoQuery == [op |-> NONE]
NoBatch == [state |-> "idle"]
NoWorkers == <<>>

ResolutionArgs == {NONE, "crude", "full", "bogus"}
LevelsArgs == {Nothing, Some(<<>>), Some(<<3, 1, 2>>), Some(<<4, 5, 9>>)}
BBoxArgs == {Nothing, Some(Box(0, 0, 180, 90))}

\* The state a constructor call starts from, its arguments apart.
CtorStart ==
    /\ pc = "ctor"
    /\ resolution_code = NONE
    /\ level = 0
    /\ polygons_ = <<>>
    /\ points = <<>>
    /\ rtree_ = Nothing
    /\ opened = <<>>
    /\ reads = <<>>
    /\ error = NONE
    /\ last = NoQuery
    /\ batch = NoBatch
    /\ workers = NoWorkers

Init ==
    /\ dirname \in Directories
    /\ resolution \in ResolutionArgs
    /\ levels \in LevelsArgs
    /\ bbox_ \in BBoxArgs
    /\ CtorStart

\* An exception leaves the constructor: the members built so far are
\* destroyed and no object is handed to the caller.
Throw(what) ==
    /\ pc' = "failed"
    /\ error' = what
    /\ polygons_' = <<>>
    /\ points' = <<>>

\* GSHHG::GSHHG up to the level loop.
ParseResolution ==
    /\ pc = "ctor"
    /\ LET ident == parse_resolution_string(value_or(resolution, "intermediate"))
       IN  IF ident = NONE
           THEN /\ Throw("InvalidArgument")
                /\ UNCHANGED <<resolution_code, level>>
           ELSE /\ resolution_code' = ident
                /\ level' = FirstLevel
                /\ pc' = "loop"
                /\ UNCHANGED <<polygons_, points, error>>
    /\ UNCHANGED <<argVars, rtree_, opened, reads, last, batch, workers>>

\* One iteration of the level loop that skips the level.
SkipLevel ==
    /\ pc = "loop"
    /\ level <= LastLevel
    /\ SkipsLevel(levels, resolution_code, level)
    /\ level' = NextLevel(level)
    /\ UNCHANGED <<argVars, pc, resolution_code, polygons_, points, rtree_,
                   opened, reads, error, last, batch, workers>>

\* SHPOpen returned nullptr.
OpenFailsNever(file) == FALSE
OpenFails(file) == ~file.found

\* One iteration of the level loop that calls load_shp.
LoadLevel ==
    /\ pc = "loop"
    /\ level <= LastLevel
    /\ ~SkipsLevel(levels, resolution_code, level)
    /\ opened' = Append(opened, Path(resolution_code, level))
    /\ LET file == FileAt(dirname, resolution_code, level)
           r == LoadShapes(file.shapes, 0, level,
                           NeedsPatch(resolution_code, level), bbox_,
                           polygons_, points)
       IN  IF OpenFails(file)
           THEN /\ Throw("NotFound")
                /\ UNCHANGED <<reads, level>>
           ELSE /\ reads' = reads \o [i \in 1..r.nread |-> <<level, i - 1>>]
                /\ IF r.ok
                   THEN /\ polygons_' = r.polygons
                        /\ points' = r.points
                        /\ level' = NextLevel(level)
                        /\ UNCHANGED <<pc, error>>
                   ELSE /\ Throw("DataCorruption")
                        /\ UNCHANGED level
    /\ UNCHANGED <<argVars, resolution_code, rtree_, last, batch, workers>>

\* rtree_.reset(new RTree(points)) after the loop.
BuildIndex ==
    /\ pc = "loop"
    /\ level > LastLevel
    /\ rtree_' = Some(points)
    /\ pc' = "ready"
    /\ UNCHANGED <<argVars, resolution_code, level, polygons_, points, opened,
                   reads, error, last, batch, workers>>

\* ------------------------------------------------------------------------
\* gshhg.hpp: the single-point queries
\* ------------------------------------------------------------------------

\* The loop of mask() over boost::adaptors::reverse(polygons_), from record i
\* down to record 1.
RECURSIVE ScanForward(_, _, _)
ScanForward(polys, i, point) ==
    IF i = 0 THEN 0
    ELSE LET first == ScanForward(polys, i - 1, point)
         IN  IF first # 0 THEN first
             ELSE IF PointInBox(point, polys[i].envelope)
                     /\ PointInRing(point, polys[i].polygon)
                  THEN polys[i].level
                  ELSE 0

RECURSIVE ScanReverse(_, _, _)
ScanReverse(polys, i, point) ==
    IF i = 0 THEN 0
    ELSE IF PointInBox(point, polys[i].envelope)
            /\ PointInRing(point, polys[i].polygon)
         THEN polys[i].level
         ELSE ScanReverse(polys, i - 1, point)

\* GSHHG::mask(lon, lat)
mask(polys, lon, lat) ==
    ScanReverse(polys, Len(polys), Pt(normalize_angle(lon, MinLon, Circle), lat))

\* GSHHG::nearest(const Cartesian&): what the nearest-1 query of the index
\* may yield (equidistant points tie); the empty set is where result.at(0)
\* throws std::out_of_range.
NearestHitsOrQuery(rt, ecef) ==
    IF rt = <<>> THEN {ecef}
    ELSE {q \in Range(rt) : \A r \in Range(rt) : Dist2(ecef, q) <= Dist2(ecef, r)}
NearestHits(rt, ecef) ==
    {q \in Range(rt) : \A r \in Range(rt) : Dist2(ecef, q) <= Dist2(ecef, r)}

\* What one call returns to its caller: a value, or the exception thrown.
Returned(value) == [threw |-> NONE, value |-> value]
Thrown(what) == [threw |-> what]

\* GSHHG::nearest(lon, lat): the geodetic points it may return.
nearest(rt, lon, lat) ==
    LET hits == NearestHits(rt, geodetic_2_cartesian(lon, lat))
    IN  IF hits = {} THEN {Thrown("EmptyIndex")}
        ELSE {[threw |-> NONE, value |-> cartesian_2_geodetic(hit),
               hit |-> hit] : hit \in hits}

\* GSHHG::distance_to_nearest(lon, lat, strategy): the distance the strategy
\* gives between nearest(lon, lat) and the query point, kept as the term
\* <<strategy, nearest point, query point>>.
distance_to_nearest(rt, lon, lat, strategy) ==
    {IF r.threw # NONE THEN r
     ELSE Returned(<<strategy, r.value, Pt(lon, lat)>>) : r \in nearest(rt, lon, lat)}

Strategies == {"Andoyer", "Haversine", "Thomas", "Vincenty"}

MaskLons == {-135, 30, 60, 180, 390}
MaskLats == {30, 45}
NearLons == {-180, 0, 270}
NearLats == {0, 90}

\* The engine exists and no batched query is running.
Ready == pc = "ready" /\ batch.state = "idle"

MaskPopping(lon, lat) ==
    /\ Ready
    /\ polygons_ # <<>>
    /\ last' = [op |-> "mask", lon |-> lon, lat |-> lat,
                ret |-> Returned(mask(polygons_, lon, lat))]
    /\ polygons_' = SubSeq(polygons_, 1, Len(polygons_) - 1)
    /\ UNCHANGED <<argVars, pc, resolution_code, level, points, rtree_,
                   opened, reads, error, batch, workers>>
Mask(lon, lat) ==
    /\ Ready
    /\ last' = [op |-> "mask", lon |-> lon, lat |-> lat,
                ret |-> Returned(mask(polygons_, lon, lat))]
    /\ UNCHANGED <<ctorVars, batch, workers>>

Nearest(lon, lat) ==
    /\ Ready
    /\ \E r \in nearest(Value(rtree_), lon, lat) :
           last' = [op |-> "nearest", lon |-> lon, lat |-> lat, ret |-> r]
    /\ UNCHANGED <<ctorVars, batch, workers>>

DistanceToNearest(lon, lat, strategy) ==
    /\ Ready
    /\ \E r \in distance_to_nearest(Value(rtree_), lon, lat, strategy) :
           last' = [op |-> "distance_to_nearest", lon |-> lon, lat |-> lat,
                    ret |-> r]
    /\ UNCHANGED <<ctorVars, batch, workers>>

\* GSHHG::points()
PointsCount ==
    /\ Ready
    /\ last' = [op |-> "points", ret |-> Returned(Len(Value(rtree_)))]
    /\ UNCHANGED <<ctorVars, batch, workers>>

\* GSHHG::polygons()
PolygonsCount ==
    /\ Ready
    /\ last' = [op |-> "polygons", ret |-> Returned(Len(polygons_))]
    /\ UNCHANGED <<ctorVars, batch, workers>>

\* ------------------------------------------------------------------------
\* main.cpp: the batched queries
\* ------------------------------------------------------------------------

\* The sizes of the batches and the thread counts the model runs.
MaxN == 3
MaxThreads == 3

BatchOps == {"mask", "nearest", "distance_to_nearest"}

\* The strategies the batches are run with.
BatchStrategies == {"Haversine", "Vincenty"}

\* std::thread::hardware_concurrency() of the machine the model runs on.
HardwareConcurrency == MaxThreads

\* The coordinates of a batch at index ix (0-based).
BatchLon(op, ix) ==
    IF op = "mask" THEN <<30, -135, 390, 60>>[(ix % 4) + 1]
    ELSE <<0, -180, 270, 0>>[(ix % 4) + 1]
BatchLat(op, ix) ==
    IF op = "mask" THEN <<30, 45>>[(ix % 2) + 1]
    ELSE <<0, 0, 0, 90>>[(ix % 4) + 1]

\* What the body of a worker's loop may get for index ix.
PerPoint(op, strategy, ix) ==
    LET lon == BatchLon(op, ix)
        lat == BatchLat(op, ix)
    IN  CASE op = "mask" -> {Returned(mask(polygons_, lon, lat))}
          [] op = "nearest" ->
               {IF r.threw # NONE THEN r ELSE Returned(r.value) :
                   r \in nearest(Value(rtree_), lon, lat)}
          [] OTHER -> distance_to_nearest(Value(rtree_), lon, lat, strategy)

\* dispatch (thread.hpp): the ways of cutting [0, n) into t contiguous ranges
\* <<start, end>>, in index order.
Partitions(n, t) ==
    {rg \in [1..t -> (0..n) \X (0..n)] :
        /\ rg[1][1] = 0
        /\ rg[t][2] = n
        /\ \A k \in 1..t : rg[k][1] <= rg[k][2]
        /\ \A k \in 1..(t - 1) : rg[k][2] = rg[k + 1][1]}

\* The worker lambda: for (size_t ix = start; ix < end; ++ix)
LoopStartSkipsFirst(start) == start + 1
LoopStart(start) == start

UNSET == [threw |-> "unset"]

\* A worker as its thread starts, and the ones whose lambda has returned.
Worker(range) ==
    [pc |-> IF LoopStart(range[1]) < range[2] THEN "run" ELSE "done",
     ix |-> LoopStart(range[1]), end |-> range[2], old |-> 0]

\* The binding's mask, nearest and distance_to_nearest up to the threads
\* dispatch starts.
StartBatch(op, strategy, n, num_threads) ==
    /\ Ready
    /\ LET t == IF num_threads = 0 THEN HardwareConcurrency ELSE num_threads
       IN  IF n = 0
           THEN /\ workers' = NoWorkers
                /\ batch' = [state |-> "running", op |-> op,
                             strategy |-> strategy, n |-> n,
                             num_threads |-> num_threads, ranges |-> <<>>,
                             output |-> <<>>, visits |-> <<>>,
                             writer |-> <<>>, except |-> 0,
                             refs |-> <<>>, stores |-> <<>>,
                             corrupt |-> FALSE, raised |-> 0]
           ELSE \E rg \in Partitions(n, t) :
                /\ workers' = [w \in 1..t |-> Worker(rg[w])]
                /\ batch' = [state |-> "running", op |-> op,
                             strategy |-> strategy, n |-> n,
                             num_threads |-> num_threads, ranges |-> rg,
                             output |-> [i \in 1..n |-> UNSET],
                             visits |-> [i \in 1..n |-> 0],
                             writer |-> [i \in 1..n |-> 0], except |-> 0,
                             refs |-> [w \in 1..t |-> 0], stores |-> <<>>,
                             corrupt |-> FALSE, raised |-> 0]
    /\ last' = NoQuery
    /\ UNCHANGED ctorVars

Running(w) ==
    /\ batch.state = "running"
    /\ w \in 1..Len(workers)

\* One iteration of a worker's loop: the query of index ix and the write of
\* its result at ix; an exception leaves the loop for the catch block, where
\* std::current_exception() holds the one reference to the exception object.
WorkerStep(w) ==
    /\ Running(w)
    /\ workers[w].pc = "run"
    /\ LET ix == workers[w].ix
       IN  \E r \in PerPoint(batch.op, batch.strategy, ix) :
               IF r.threw = NONE
               THEN /\ batch' = [batch EXCEPT !.output[ix + 1] = r,
                                              !.visits[ix + 1] = @ + 1,
                                              !.writer[ix + 1] = w]
                    /\ workers' = [workers EXCEPT
                           ![w].ix = ix + 1,
                           ![w].pc = IF ix + 1 < workers[w].end
                                     THEN "run" ELSE "done"]
               ELSE /\ batch' = [batch EXCEPT !.visits[ix + 1] = @ + 1,
                                              !.refs[w] = 1]
                    /\ workers' = [workers EXCEPT ![w].pc = "caught"]
    /\ UNCHANGED <<ctorVars, last>>

\* except = std::current_exception(), which no lock guards: the assignment
\* swaps the shared pointer with a temporary (a read, then a write) and then
\* releases the exception the pointer held before.
CatchRead(w) ==
    /\ Running(w)
    /\ workers[w].pc = "caught"
    /\ workers' = [workers EXCEPT ![w].old = batch.except, ![w].pc = "store"]
    /\ UNCHANGED <<ctorVars, last, batch>>

CatchStore(w) ==
    /\ Running(w)
    /\ workers[w].pc = "store"
    /\ batch' = [batch EXCEPT !.except = w, !.stores = Append(@, w)]
    /\ workers' = [workers EXCEPT ![w].pc = "release"]
    /\ UNCHANGED <<ctorVars, last>>

\* The release of the exception swapped out: the last reference frees it; a
\* release of an exception that is already freed is a use after free.
CatchRelease(w) ==
    /\ Running(w)
    /\ workers[w].pc = "release"
    /\ LET old == workers[w].old
       IN  batch' = IF old = 0 THEN batch
                    ELSE IF batch.refs[old] = 0
                         THEN [batch EXCEPT !.corrupt = TRUE]
                         ELSE [batch EXCEPT !.refs[old] = @ - 1]
    /\ workers' = [workers EXCEPT ![w].pc = "done"]
    /\ UNCHANGED <<ctorVars, last>>

\* What the process may do after a use after free: go on, or abort.
Outcomes(corrupt) == IF corrupt THEN {"raised", "aborted"} ELSE {"raised"}

\* dispatch has joined every worker: std::rethrow_exception(except) when an
\* exception was captured, the return of the output otherwise.
Join ==
    /\ batch.state = "running"
    /\ \A w \in 1..Len(workers) : workers[w].pc = "done"
    /\ IF batch.except = 0
       THEN batch' = [batch EXCEPT !.state = "returned"]
       ELSE \E outcome \in Outcomes(batch.corrupt) :
                batch' = [batch EXCEPT !.state = outcome,
                                       !.raised = IF outcome = "raised"
                                                  THEN batch.except ELSE 0]
    /\ UNCHANGED <<ctorVars, last, workers>>

\* The caller goes on after the batch returned or raised.
BatchEnd ==
    /\ batch.state \in {"returned", "raised"}
    /\ batch' = NoBatch
    /\ workers' = NoWorkers
    /\ UNCHANGED <<ctorVars, last>>

Construct ==
    \/ ParseResolution
    \/ SkipLevel
    \/ LoadLevel
    \/ BuildIndex

Query ==
    \/ \E lon \in MaskLons, lat \in MaskLats : Mask(lon, lat)
    \/ \E lon \in NearLons, lat \in NearLats : Nearest(lon, lat)
    \/ \E lon \in NearLons, strategy \in Strategies :
           DistanceToNearest(lon, 0, strategy)
    \/ PointsCount
    \/ PolygonsCount

BatchQuery ==
    \/ \E op \in BatchOps, n \in 0..MaxN, num_threads \in 0..MaxThreads :
           \E strategy \in IF op = "distance_to_nearest"
                           THEN BatchStrategies ELSE {NONE} :
               StartBatch(op, strategy, n, num_threads)
    \/ \E w \in 1..MaxThreads : WorkerStep(w)
    \/ \E w \in 1..MaxThreads : CatchRead(w)
    \/ \E w \in 1..MaxThreads : CatchStore(w)
    \/ \E w \in 1..MaxThreads : CatchRelease(w)
    \/ Join
    \/ BatchEnd

Next == Construct \/ Query

Spec == Init /\ [][Next]_vars

\* The engine and its batched queries: the constructions the batches run on
\* are one that indexes points and one that indexes none.
BatchInit ==
    /\ dirname \in {[base |-> b, badLevel |-> 0, bad |-> MISSING] :
                       b \in {"nested", "empty"}}
    /\ resolution = NONE
    /\ levels = Some(<<3, 1, 2>>)
    /\ bbox_ = Nothing
    /\ CtorStart

BatchNext == Construct \/ Query \/ BatchQuery

BatchSpec == BatchInit /\ [][BatchNext]_vars

\* ------------------------------------------------------------------------
\* Properties of the single-point queries
\* ------------------------------------------------------------------------

\* The longitude congruent to lon modulo a full circle in [-180, 180).
NormalizedLon(lon) ==
    CHOOSE v \in MinLon..(MinLon + Circle - 1) : (v - lon) % Circle = 0

QueryPoint == Pt(NormalizedLon(last.lon), last.lat)

\* The stored records whose envelope and ring contain the last query's point.
Containing ==
    {i \in 1..Len(polygons_) :
        /\ PointInBox(QueryPoint, polygons_[i].envelope)
        /\ PointInRing(QueryPoint, polygons_[i].polygon)}

\* The stored records whose ring contains the last query's point.
RingContaining ==
    {i \in 1..Len(polygons_) : PointInRing(QueryPoint, polygons_[i].polygon)}

SetMax(S) == CHOOSE v \in S : \A w \in S : v >= w

C1_WitnessEmpty ==
    /\ last.op = "mask"
    /\ polygons_ = <<>>
    /\ last.ret.value = 0

\* C2: mask returns the deepest level among the stored records whose ring
\* contains the point, whatever the dataset that was constructed.
C2_MaskDeepestLevel ==
    (last.op = "mask" /\ RingContaining # {}) =>
        last.ret.value = SetMax({polygons_[i].level : i \in RingContaining})

\* A point of the island in the lake, which the lake (level 2) and the
\* landmass (level 1) contain too.
C2_Witness ==
    /\ last.op = "mask"
    /\ {polygons_[i].level : i \in RingContaining} = {1, 2, 3}
    /\ last.ret.value = 3

\* C9: nearest on an index that holds no point fails with EmptyIndex; on an
\* index that holds points it returns the geodetic coordinates of one of them.
C9_NearestEmptyIndex ==
    last.op = "nearest" =>
        IF Value(rtree_) = <<>>
        THEN last.ret.threw = "EmptyIndex"
        ELSE /\ last.ret.threw = NONE
             /\ last.ret.hit \in Range(Value(rtree_))
             /\ last.ret.value = cartesian_2_geodetic(last.ret.hit)

\* nearest fails on an engine whose files held shapes, none inside the bbox.
C9_Witness ==
    /\ last.op = "nearest"
    /\ last.ret.threw = "EmptyIndex"
    /\ Has(bbox_)
    /\ reads # <<>>

\* nearest returns an indexed point.
C9_WitnessHit ==
    /\ last.op = "nearest"
    /\ last.ret.threw = NONE
    /\ last.ret.hit \in Range(Value(rtree_))

\* ------------------------------------------------------------------------
\* Properties of the construction
\* ------------------------------------------------------------------------

OpenedLevels == {opened[i][4] : i \in 1..Len(opened)}

\* The shape a SHPReadObject call of the log read.
ShapeRead(r) == FileAt(dirname, resolution_code, r[1]).shapes[r[2] + 1]

\* C5: a resolution name other than crude, low, intermediate, high and full
\* makes the construction fail with InvalidArgument before any file is
\* opened, whatever the levels and the bbox; an absent resolution is
\* intermediate.
C5_UnknownResolution ==
    /\ value_or(resolution, "intermediate") \notin ResolutionNames =>
           /\ opened = <<>> /\ reads = <<>>
           /\ pc \in {"ctor", "failed"}
           /\ pc = "failed" => error = "InvalidArgument"
    /\ resolution = NONE =>
           /\ error # "InvalidArgument"
           /\ pc # "ctor" => resolution_code = "i"
           /\ \A i \in 1..Len(opened) : opened[i] = Path("i", opened[i][4])

\* The construction failed on an unknown resolution, with levels and a bbox.
C5_Witness ==
    /\ resolution = "bogus"
    /\ Has(levels) /\ Value(levels) # <<>>
    /\ Has(bbox_)
    /\ pc = "failed"
    /\ error = "InvalidArgument"

\* The levels the caller requests and the chosen resolution holds.
Requested ==
    {lv \in FirstLevel..LastLevel :
        /\ Has(levels) => lv \in Range(Value(levels))
        /\ ~(resolution_code = "c" /\ lv = 4)}

\* A load-time error happened: a file that was opened is missing, or a shape
\* that was read is malformed.
LoadError ==
    \/ \E lv \in OpenedLevels : ~FileAt(dirname, resolution_code, lv).found
    \/ \E i \in 1..Len(reads) :
           LET shape == ShapeRead(reads[i])
           IN  shape.null \/ (shape.nParts > 0 /\ shape.panPartStart0 # 0)

\* C6: the construction completes the load of every requested level or fails
\* as a whole: after a load-time error there is no engine, no record and no
\* index, and no query is ever answered; an engine that exists has read every
\* shape of every requested level.
C6_AtomicConstruction ==
    /\ LoadError =>
           /\ pc = "failed"
           /\ error \in {"NotFound", "DataCorruption"}
           /\ polygons_ = <<>> /\ rtree_ = Nothing
           /\ last = NoQuery
    /\ pc = "failed" => polygons_ = <<>> /\ rtree_ = Nothing /\ last = NoQuery
    /\ pc = "ready" =>
           /\ OpenedLevels = Requested
           /\ Range(reads) =
                  {<<lv, ix>> : lv \in Requested, ix \in 0..2} \cap
                  {r \in (FirstLevel..LastLevel) \X (0..2) :
                      r[2] < Len(FileAt(dirname, resolution_code, r[1]).shapes)}

\* The construction failed on a later level after it had loaded shapes of
\* earlier levels.
C6_Witness ==
    /\ pc = "failed"
    /\ error = "NotFound"
    /\ Len(opened) >= 3
    /\ reads # <<>>

\* C7: a shape with more than one part whose first part does not start at
\* offset 0 aborts the build with DataCorruption at that shape: it is the last
\* shape read, and there is no engine, no record and no index.
C7_MultiPartCorruption ==
    \A i \in 1..Len(reads) :
        LET shape == ShapeRead(reads[i])
        IN  (~shape.null /\ shape.nParts > 1 /\ shape.panPartStart0 # 0) =>
                /\ i = Len(reads)
                /\ opened[Len(opened)][4] = reads[i][1]
                /\ pc = "failed"
                /\ error = "DataCorruption"
                /\ polygons_ = <<>> /\ rtree_ = Nothing

\* The build aborted at such a shape, which is neither the first nor the last
\* of its file, after earlier levels were loaded.
C7_Witness ==
    /\ error = "DataCorruption"
    /\ ShapeRead(reads[Len(reads)]) = BadParts2
    /\ reads[Len(reads)][2] = 1
    /\ Len(FileAt(dirname, resolution_code, reads[Len(reads)][1]).shapes) = 3
    /\ Len(opened) >= 2

\* C8: the files opened are those of the requested levels, never the one of
\* level 4 at crude resolution; after a successful construction every stored
\* record has a level in 1..6 that is requested and is not 4 at crude
\* resolution.
C8_StoredLevels ==
    /\ \A lv \in OpenedLevels :
           /\ lv \in FirstLevel..LastLevel
           /\ Has(levels) => lv \in Range(Value(levels))
           /\ ~(resolution_code = "c" /\ lv = 4)
    /\ \A i \in 1..Len(opened) : opened[i] = Path(resolution_code, opened[i][4])
    /\ pc = "ready" =>
           \A i \in 1..Len(polygons_) :
               /\ polygons_[i].level \in FirstLevel..LastLevel
               /\ Has(levels) => polygons_[i].level \in Range(Value(levels))
               /\ ~(resolution = "crude" /\ polygons_[i].level = 4)

\* An engine built at crude resolution from a level list that names level 4.
C8_Witness ==
    /\ pc = "ready"
    /\ resolution = "crude"
    /\ Has(levels) /\ 4 \in Range(Value(levels))
    /\ polygons_ # <<>>

\* ------------------------------------------------------------------------
\* Properties of the batched queries
\* ------------------------------------------------------------------------

Indices == 0..(batch.n - 1)

\* The workers whose range holds index i.
Owners(i) ==
    {w \in 1..Len(batch.ranges) :
        batch.ranges[w][1] <= i /\ i < batch.ranges[w][2]}

\* The indices worker w has been through: the loop's body ran for them.
Visited(w) == {i \in Indices : i \in batch.ranges[w][1]..(workers[w].ix - 1)}
    \cup IF workers[w].pc \in {"caught", "store", "release"}
            \/ (workers[w].pc = "done" /\ workers[w].ix < workers[w].end)
         THEN {workers[w].ix} ELSE {}

\* C3: a batched query cuts [0, N) into as many contiguous ranges as there
\* are threads (the hardware concurrency for 0), one worker each; every
\* worker goes through its range in increasing order and writes only the
\* outputs of its range, no index is visited twice, and a batch that returns
\* has visited every index once and holds at each index the result of that
\* index's query, whatever the thread count.
C3_BatchPartition ==
    (batch.state # "idle" /\ batch.n > 0) =>
        /\ Len(workers) = Len(batch.ranges)
        /\ batch.num_threads # 0 => Len(workers) = batch.num_threads
        /\ Len(workers) >= 1
        /\ \A i \in Indices :
               /\ Cardinality(Owners(i)) = 1
               /\ batch.visits[i + 1] <= 1
               /\ batch.visits[i + 1] = 1 <=> \E w \in Owners(i) : i \in Visited(w)
               /\ batch.writer[i + 1] # 0 => batch.writer[i + 1] \in Owners(i)
               /\ batch.output[i + 1] # UNSET =>
                      batch.output[i + 1] \in
                          PerPoint(batch.op, batch.strategy, i)
        /\ \A w \in 1..Len(workers) :
               /\ batch.ranges[w][1] <= workers[w].ix
               /\ workers[w].ix <= batch.ranges[w][2]
        /\ batch.state = "returned" =>
               \A i \in Indices :
                   /\ batch.visits[i + 1] = 1
                   /\ batch.output[i + 1] # UNSET
                   /\ batch.op = "mask" =>
                          batch.output[i + 1] =
                              Returned(mask(polygons_, BatchLon("mask", i),
                                            BatchLat("mask", i)))

\* A mask batch of three points returned from three workers, started with a
\* thread count of 0.
C3_Witness ==
    /\ batch.state = "returned"
    /\ batch.op = "mask"
    /\ batch.n = 3
    /\ batch.num_threads = 0
    /\ Len(workers) = 3
    /\ \A i \in Indices : batch.writer[i + 1] = i + 1

\* C4: when the query of some index fails, the worker of that index stops
\* there and the other workers finish their ranges; once all workers have
\* joined, one captured error, the last one stored, is propagated to the
\* caller, however the failing workers interleave.
C4_OneErrorPropagated ==
    (batch.state \in {"returned", "raised", "aborted"} /\ batch.n > 0) =>
        /\ \A w \in 1..Len(workers) :
               IF w \in Range(batch.stores)
               THEN /\ workers[w].ix < workers[w].end
                    /\ \A i \in workers[w].ix..(workers[w].end - 1) :
                           batch.output[i + 1] = UNSET
               ELSE workers[w].ix = workers[w].end
        /\ IF batch.stores = <<>>
           THEN batch.state = "returned"
           ELSE /\ batch.state = "raised"
                /\ batch.raised = batch.stores[Len(batch.stores)]

\* Three workers failed and their catch blocks freed one exception twice.
C4_Race ==
    /\ batch.state = "running"
    /\ batch.corrupt
    /\ Len(batch.stores) = 3

\* C10: once the construction has succeeded, no query, single or batched,
\* changes the polygon records or the indexed points, and points() and
\* polygons() return their numbers.
C10_DatasetImmutable ==
    [][pc = "ready" =>
          /\ pc' = "ready"
          /\ polygons_' = polygons_
          /\ rtree_' = rtree_
          /\ bbox_' = bbox_
          /\ last'.op = "points" => last'.ret.value = Len(Value(rtree_))
          /\ last'.op = "polygons" => last'.ret.value = Len(polygons_)]_vars

\* A batch of several workers has returned on an engine that stores records.
C10_Witness ==
    /\ pc = "ready"
    /\ polygons_ # <<>>
    /\ batch.state = "returned"
    /\ batch.n >= 2
    /\ Len(workers) >= 2

\* ------------------------------------------------------------------------
\* math.hpp: normalize_angle in its two variants
\* ------------------------------------------------------------------------

\* A binary floating-point format with a significand of Precision bits (a
\* double has 53), its values counted in units of its smallest step; the
\* angles the calls are run with lie within MaxAngle units of zero.
Precision == 4
MaxAngle == 100

Abs(v) == IF v < 0 THEN -v ELSE v

\* The distance of the representable values around a magnitude a.
RECURSIVE Ulp(_)
Ulp(a) == IF a < 2 ^ Precision THEN 1 ELSE 2 * Ulp(a \div 2)

\* The rounding of every floating-point operation: to the nearest
\* representable value, a tie to the one with the even significand.
Round(v) ==
    LET a == Abs(v)
        q == Ulp(a)
        m == a \div q
        r == a % q
        up == IF 2 * r < q THEN m
              ELSE IF 2 * r > q THEN m + 1
              ELSE IF m % 2 = 0 THEN m ELSE m + 1
    IN  IF v < 0 THEN -(up * q) ELSE up * q

Floats == {v \in (-MaxAngle)..MaxAngle : Round(v) = v}

\* remainder, floating-point variant: std::remainder is exact, result += y
\* rounds.
remainder_floating_point(x, y) ==
    LET result == StdRemainder(x, y)
    IN  IF result < 0 THEN Round(result + y) ELSE result

normalize_angle_floating_point(x, min, circle) ==
    Round(remainder_floating_point(Round(x - min), circle) + min)

\* x % y of C++: the quotient is truncated, the result has the sign of x.
TruncRem(x, y) == IF x < 0 THEN -((-x) % Abs(y)) ELSE x % Abs(y)

\* remainder, integral variant; (result ^ y) < 0 says the signs differ.
remainder_integral(x, y) ==
    LET result == TruncRem(x, y)
    IN  IF result # 0 /\ ((result < 0) # (y < 0)) THEN result + y ELSE result

normalize_angle_integral(x, min, circle) ==
    remainder_integral(x - min, circle) + min

\* The calls the model makes: a minimum and a circle as mask() passes them (a
\* circle twice the magnitude of the minimum), a minimum of zero, and a small
\* circle.
MinArgs == {-24, 0}
CircleArgs == {48, 12}

MathInit ==
    /\ dirname = [base |-> "empty", badLevel |-> 0, bad |-> MISSING]
    /\ resolution = NONE
    /\ levels = Nothing
    /\ bbox_ = Nothing
    /\ pc = "math"
    /\ resolution_code = NONE
    /\ level = 0
    /\ polygons_ = <<>>
    /\ points = <<>>
    /\ rtree_ = Nothing
    /\ opened = <<>>
    /\ reads = <<>>
    /\ error = NONE
    /\ batch = NoBatch
    /\ workers = NoWorkers
    /\ \E min \in MinArgs, circle \in CircleArgs :
           last \in [op : {"args"}, x : Floats, min : {min}, circle : {circle}]

NormalizeAngleFloat ==
    /\ pc = "math"
    /\ last.op = "args"
    /\ last' = [op |-> "normalize_angle", variant |-> "floating_point",
                x |-> last.x, min |-> last.min, circle |-> last.circle,
                ret |-> normalize_angle_floating_point(last.x, last.min,
                                                       last.circle)]
    /\ UNCHANGED <<ctorVars, batch, workers>>

NormalizeAngleInt ==
    /\ pc = "math"
    /\ last.op = "args"
    /\ last' = [op |-> "normalize_angle", variant |-> "integral",
                x |-> last.x, min |-> last.min, circle |-> last.circle,
                ret |-> normalize_angle_integral(last.x, last.min,
                                                 last.circle)]
    /\ UNCHANGED <<ctorVars, batch, workers>>

MathNext == NormalizeAngleFloat \/ NormalizeAngleInt

MathSpec == MathInit /\ [][MathNext]_vars

\* The result r of a call lies in [min, min + circle) and differs from x by
\* a multiple of the circle.
Normalized ==
    /\ last.min <= last.ret
    /\ last.ret < last.min + last.circle
    /\ (last.ret - last.x) % last.circle = 0

\* C11: normalize_angle(x, min, circle) with circle > 0 returns, in the
\* integral and in the floating-point variant, a value r with
\* min <= r < min + circle that differs from x by a multiple of circle.
C11_NormalizeAngleRange ==
    last.op = "normalize_angle" => Normalized

\* The integral variant alone.
C11_IntegralInRange ==
    (last.op = "normalize_angle" /\ last.variant = "integral") => Normalized

\* The floating-point variant returned min + circle for an x just below min.
C11_FloatReturnsUpperEnd ==
    /\ last.op = "normalize_angle"
    /\ last.variant = "floating_point"
    /\ last.x < last.min
    /\ last.min - last.x < last.circle
    /\ last.ret = last.min + last.circle

\* ------------------------------------------------------------------------
\* Properties of the stored dataset
\* ------------------------------------------------------------------------

\* The shapes of the files a successful construction has read: level and
\* entity index.
Entities ==
    {e \in Requested \X (0..2) :
        e[2] < Len(FileAt(dirname, resolution_code, e[1]).shapes)}

Before(e, f) == e[1] < f[1] \/ (e[1] = f[1] /\ e[2] < f[2])

\* The rings shape e has to store: none for a shape that is no polygon or
\* has no vertex, the pieces inside the bbox when there is one.
RingsOf(e) ==
    LET shape == FileAt(dirname, resolution_code, e[1]).shapes[e[2] + 1]
        ring == ShapeRing(shape, e[2], NeedsPatch(resolution_code, e[1]))
    IN  IF shape.nSHPType # SHPT_POLYGON \/ shape.verts = <<>> THEN <<>>
        ELSE IF Has(bbox_) THEN Intersection(ring, Value(bbox_))
        ELSE <<ring>>

RECURSIVE SumLen(_)
SumLen(S) ==
    IF S = {} THEN 0
    ELSE LET e == CHOOSE f \in S : TRUE
         IN  Len(RingsOf(e)) + SumLen(S \ {e})

\* The number of records stored before those of shape e.
Offset(e) == SumLen({f \in Entities : Before(f, e)})

\* C12: after a successful construction the records are in load order: the
\* levels never decrease along the sequence, whatever the order of the
\* caller's level list, and the records of one level follow the entity order
\* of its file, the pieces of one clipped shape next to each other at the
\* place of that shape.
C12_LoadOrder ==
    pc = "ready" =>
        /\ \A i \in 1..(Len(polygons_) - 1) :
               polygons_[i].level <= polygons_[i + 1].level
        /\ Len(polygons_) = SumLen(Entities)
        /\ \A e \in Entities :
               {polygons_[Offset(e) + k] : k \in 1..Len(RingsOf(e))} =
               {PolygonIndex(ring, e[1]) : ring \in Range(RingsOf(e))}

\* An engine built from an unordered level list and a bbox that cuts one
\* shape into two pieces, with a shape stored before and one after it in the
\* same level, and records of an earlier level.
C12_Witness ==
    /\ pc = "ready"
    /\ Has(levels) /\ Value(levels) = <<3, 1, 2>>
    /\ Has(bbox_)
    /\ \E e \in Entities :
           /\ Len(RingsOf(e)) = 2
           /\ RingsOf(e)[1] # RingsOf(e)[2]
           /\ Offset(e) >= 2
           /\ polygons_[Offset(e)].level = e[1]
           /\ Offset(e) + 2 < Len(polygons_)
           /\ polygons_[Offset(e) + 3].level = e[1]
           /\ polygons_[1].level < e[1]

\* The ECEF points of the vertices of the stored rings from record i on, in
\* the order of the records and of their vertices.
RECURSIVE StoredVertices(_)
StoredVertices(i) ==
    IF i > Len(polygons_) THEN <<>>
    ELSE [k \in 1..Len(polygons_[i].polygon) |->
             geodetic_2_cartesian(polygons_[i].polygon[k][1],
                                  polygons_[i].polygon[k][2])]
         \o StoredVertices(i + 1)

ShapeAt(e) == FileAt(dirname, resolution_code, e[1]).shapes[e[2] + 1]

\* The ring of shape e has no vertex inside the bbox.
OutsideBBox(e) ==
    /\ Has(bbox_)
    /\ \A k \in 1..Len(ShapeAt(e).verts) :
           ~PointInBox(ShapeAt(e).verts[k], Value(bbox_))

\* C13: after a successful construction the index holds one ECEF point per
\* vertex of every stored ring (the clipped ring under a bbox) and nothing
\* else, so that points() is the total number of those vertices; shapes that
\* are no polygons, have no vertex or do not meet the bbox store no record
\* and no point.
C13_PointsCount ==
    pc = "ready" =>
        /\ Value(rtree_) = StoredVertices(1)
        /\ last.op = "points" =>
               /\ last.ret.threw = NONE
               /\ last.ret.value = Len(StoredVertices(1))
        /\ \A i \in 1..Len(polygons_) :
               \E e \in Entities :
                   /\ ShapeAt(e).nSHPType = SHPT_POLYGON
                   /\ ShapeAt(e).verts # <<>>
                   /\ ~OutsideBBox(e)
                   /\ polygons_[i].level = e[1]
                   /\ polygons_[i].polygon \in Range(RingsOf(e))
        /\ Len(polygons_) = SumLen(Entities)

\* points() on an engine built with a bbox from files that hold a shape that
\* is no polygon, a polygon without vertices, a polygon outside the bbox and
\* polygons the bbox clips.
C13_Witness ==
    /\ pc = "ready"
    /\ last.op = "points"
    /\ last.ret.value > 0
    /\ Has(bbox_)
    /\ \E e \in Entities : ShapeAt(e).nSHPType = SHPT_POINT
    /\ \E e \in Entities :
           ShapeAt(e).nSHPType = SHPT_POLYGON /\ ShapeAt(e).verts = <<>>
    /\ \E e \in Entities : ShapeAt(e).verts # <<>> /\ OutsideBBox(e)
                           /\ ShapeAt(e).nSHPType = SHPT_POLYGON
    /\ \E i \in 1..Len(polygons_), e \in Entities :
           /\ RingsOf(e) # <<>>
           /\ polygons_[i].polygon = RingsOf(e)[1]
           /\ polygons_[i].polygon # ShapeAt(e).verts

\* The ring the patch rule makes of the vertices of a shape.
PatchedRing(verts) ==
    SubSeq(verts, 3, Len(verts) - 1) \o <<Pt(180, -90), Pt(0, -90)>>

\* The ring of shape e by the patch rule: patched for the first shape of
\* level 5 at full resolution, the vertices of the shape as they are for
\* every other shape.
RingByRule(e) ==
    IF resolution = "full" /\ e[1] = 5 /\ e[2] = 0
    THEN PatchedRing(ShapeAt(e).verts)
    ELSE ShapeAt(e).verts

Stores(e) == ShapeAt(e).nSHPType = SHPT_POLYGON /\ ShapeAt(e).verts # <<>>

\* C14: the ring of the first shape of level 5 at full resolution is made of
\* its vertices without the first two and the last one, followed by
\* (180, -90) and (0, -90); the ring of every other shape, at every level and
\* resolution, is made of all its vertices in order.  Without a bbox the ring
\* is the stored one, with a bbox its pieces inside the bbox are.
C14_PatchRule ==
    pc = "ready" =>
        \A e \in Entities :
            Stores(e) =>
                IF Has(bbox_)
                THEN {polygons_[Offset(e) + k].polygon :
                         k \in 1..Len(RingsOf(e))} =
                     Range(Intersection(RingByRule(e), Value(bbox_)))
                ELSE polygons_[Offset(e) + 1].polygon = RingByRule(e)

\* An engine at full resolution, without bbox, with the patched first shape of
\* level 5 and a second shape of level 5 stored as it is.
C14_Witness ==
    /\ pc = "ready"
    /\ resolution = "full"
    /\ ~Has(bbox_)
    /\ <<5, 0>> \in Entities /\ <<5, 1>> \in Entities
    /\ Stores(<<5, 0>>) /\ Stores(<<5, 1>>)
    /\ polygons_[Offset(<<5, 0>>) + 1].polygon = Rect(0, -90, 180, 0)
    /\ polygons_[Offset(<<5, 0>>) + 1].polygon # ShapeAt(<<5, 0>>).verts
    /\ polygons_[Offset(<<5, 1>>) + 1].polygon = ShapeAt(<<5, 1>>).verts

=============================================================================
